---- MODULE Spec2Model ----
(***************************************************************************)
(* Tsukurogami: bridge between pull-request webhooks and the bot API of a  *)
(* CI server.  The model covers the /pullRequestUpdated handler, the three *)
(* reconciler operations createBot, deleteBot and integrateBot, the        *)
(* registry of bots kept by the CI server, and the /integrationUpdated     *)
(* handler relaying build results to the source-control server.  Handlers  *)
(* run concurrently and interleave at every remote call.                   *)
(*                                                                         *)
(* Several specifications share the state: Spec (pull-request events),     *)
(* SpecRelay (integration results), SpecAll (both), SpecRace (an opened    *)
(* event followed by a closed one), SpecFilter (the instance filter        *)
(* applied to arbitrary listings) and SpecLog (the log buffer).            *)
(*                                                                         *)
(* Strings are TLA+ strings; a query parameter is the []string that        *)
(* r.URL.Query()[name] yields (<<>> when the parameter is absent).  A bot  *)
(* identifier is a natural number, 0 standing for the empty string.        *)
(***************************************************************************)
EXTENDS Naturals, Sequences, FiniteSets, TLC

VARIABLES
    registry,   \* the CI server's bots, in the order GET /api/bots lists them
    nextId,     \* the identifier the CI server gives the next bot it creates
    handler,    \* per request handler: its position and its local variables
    arrived,    \* number of requests that have arrived
    fin,        \* the request that returned in the latest step, with its response
    last,       \* the latest request to return, if it ran alone and was answered 201
    relay,      \* per /integrationUpdated handler: its position and its locals
    rfin,       \* the /integrationUpdated request that returned in the latest step
    scheme,     \* config.BitbucketURL.Scheme
    found,      \* the latest result of the instance filter, with its arguments
    script,     \* the requests that are to arrive, in order (<<>>: any requests)
    logger,     \* the log buffer l of main: its mutex m and its lines logs
    writes,     \* the goroutines logger.Write has started, one per line
    dump        \* the /logs request: its position and what it has written

vars == <<registry, nextId, handler, arrived, fin, last, relay, rfin, scheme, found,
          script, logger, writes, dump>>

-----------------------------------------------------------------------------
(* Bounds *)

\* number of requests that arrive
MaxRequests == 2

\* number of lines the handler of an opened event logs
MaxLines == 2

\* number of /logs requests served
MaxDumps == 1

\* number of bots in the listings the instance filter is applied to
MaxBots == 3

\* net/http serves each request on a goroutine of its own; two of them, each
\* taking a further request once its previous one has returned
Handlers == {1, 2}

-----------------------------------------------------------------------------
(* Program constants *)

StatusOK == 200
StatusCreated == 201
StatusNoContent == 204
StatusBadRequest == 400
StatusInternalServerError == 500
ScheduleManual == 3
ScheduleTemplate == 1
TypeScript == 1
PhasePre == 1
PhasePost == 2
Port == 4444

myIP == "localhost"

TagTemplate == "TSUKUROGAMI_REPO_TEMPLATE"
TagRepo == "TSUKUROGAMI_REPO"
TagBranch == "TSUKUROGAMI_BRANCH"

\* error values (nil and the constant part of each fmt.Errorf text)
Nil == "<nil>"
ErrMissingRepo == "missing \"repo\" parameter"
ErrMissingBranch == "missing \"branch\" parameter\""
ErrMissingStatus == "missing \"status\" parameter"
ErrUnknownStatus == "unknown status"
ErrTransport == "transport error"
ErrNoBots == "getBot: no bots"
ErrNoTemplates == "no templates for repo"
ErrNoBotsFound == "no bots found"
ErrRPCFailed == "RPC failed"
ErrNoCommit == "no \"commit\" parameter"
ErrNoStatus == "no \"status\" parameter"
ErrNoBot == "no \"bot\" parameter"
ErrNoIntegration == "no \"integration\" parameter"

-----------------------------------------------------------------------------
(* Strings *)

\* strings.ToLower on the strings the model uses
ToLower(s) ==
    CASE s = "App" -> "app"
      [] s = "FX" -> "fx"
      [] s = "Reopened" -> "reopened"
      [] s = "DECLINED" -> "declined"
      [] s = "InProgress" -> "inprogress"
      [] s = "Succeeded" -> "succeeded"
      [] s = "BUILD-ERRORS" -> "build-errors"
      [] s = "Checkout-Error" -> "checkout-error"
      [] OTHER -> s

-----------------------------------------------------------------------------
(* Maps (Go map[string]interface{}) as functions on a finite set of keys *)

MapSet(m, k, v) == [x \in (DOMAIN m) \cup {k} |-> IF x = k THEN v ELSE m[x]]

MapDelete(m, k) == [x \in (DOMAIN m) \ {k} |-> m[x]]

-----------------------------------------------------------------------------
(* Bots *)

NoConditions ==
    [onAnalyzerWarnings |-> FALSE, onBuildErrors |-> FALSE,
     onFailingTests |-> FALSE, onSuccess |-> FALSE, onWarnings |-> FALSE]

AllConditions ==
    [onAnalyzerWarnings |-> TRUE, onBuildErrors |-> TRUE,
     onFailingTests |-> TRUE, onSuccess |-> TRUE, onWarnings |-> TRUE]

Trigger(type, phase, name, body, conditions) ==
    [type |-> type, phase |-> phase, name |-> name, body |-> body,
     conditions |-> conditions]

Bot(id, name, envVars, triggers, scheduleType) ==
    [id |-> id, name |-> name, envVars |-> envVars, triggers |-> triggers,
     scheduleType |-> scheduleType]

\* fmt.Sprintf(switchBranch, branch)
SwitchBranchScript(branch) == <<"switchBranch", branch>>

\* fmt.Sprintf(pokeStatus, myIP, config.Port, status)
PokeStatusScript(ip, port, status) == <<"pokeStatus", ip, port, status>>

\* the bots a CI server may hold before the first event
BuildTrigger == Trigger(TypeScript, PhasePre, "Build", <<"build">>, NoConditions)

TemplateA == Bot(1, "app.ios", [x \in {TagTemplate} |-> "App"], <<BuildTrigger>>, ScheduleTemplate)
TemplateB == Bot(2, "app.watch", [x \in {TagTemplate} |-> "app"], <<>>, ScheduleTemplate)
OldInstance ==
    Bot(3, "app.ios.FX", (TagRepo :> "App") @@ (TagBranch :> "FX"), <<>>, ScheduleManual)
DevInstance ==
    Bot(4, "app.ios.dev", (TagRepo :> "app") @@ (TagBranch :> "dev"), <<>>, ScheduleManual)
LibInstance ==
    Bot(5, "lib.ios.fx", (TagRepo :> "lib") @@ (TagBranch :> "fx"), <<>>, ScheduleManual)
FirstFreeId == 6

\* further bots a listing may hold: an instance of (app, fx) written in lower
\* case, and a bot carrying TSUKUROGAMI_REPO without TSUKUROGAMI_BRANCH
FxInstance ==
    Bot(11, "app.watch.fx", (TagRepo :> "app") @@ (TagBranch :> "fx"), <<>>, ScheduleManual)
RepoOnly == Bot(12, "app.nightly", [x \in {TagRepo} |-> "app"], <<>>, ScheduleManual)

BotPool == {TemplateA, OldInstance, DevInstance, LibInstance, FxInstance, RepoOnly}

\* the listings of at most MaxBots bots of the pool, each at most once
Listings ==
    UNION {{bs \in [1..n -> BotPool] : \A i, j \in 1..n : bs[i] = bs[j] => i = j} : n \in 0..MaxBots}

InitRegistries ==
    { <<OldInstance>>,
      <<TemplateA, OldInstance, DevInstance>>,
      <<LibInstance, TemplateB, TemplateA>> }

Ids(bots) == {bots[i].id : i \in 1..Len(bots)}

-----------------------------------------------------------------------------
(* Requests *)

Repos == {"app"}
Branches == {"fx"}
\* the statuses that arrive: one spelling of the opened case is enough here (the
\* other arrives in SpecRace), the handling of both being the same
Statuses == {"Reopened", "closed", "DECLINED", "rescoped_from", "merged"}

\* r.URL.Query()[name]: no value when the parameter is absent
Param(S) == {<<>>} \cup {<<s>> : s \in S}

NoRequest == [repo |-> <<>>, branch |-> <<>>, status |-> <<>>]

\* the requests carrying all three parameters, and requests lacking some
Requests ==
    [repo : {<<s>> : s \in Repos}, branch : {<<s>> : s \in Branches},
     status : {<<s>> : s \in Statuses}]
    \cup { NoRequest,
           [repo |-> <<>>, branch |-> <<"fx">>, status |-> <<"opened">>],
           [repo |-> <<"app">>, branch |-> <<>>, status |-> <<>>],
           [repo |-> <<"app">>, branch |-> <<"fx">>, status |-> <<>>] }

-----------------------------------------------------------------------------
(* Bot matching *)

\* the predicate createBot passes to getBotsWhere
IsTemplateFor(b, repo) ==
    /\ TagTemplate \in DOMAIN b.envVars
    /\ ToLower(b.envVars[TagTemplate]) = ToLower(repo)

\* IsInstanceOf comparing the tags as they are written
IsInstanceOfExact(b, repo, branch) ==
    /\ TagRepo \in DOMAIN b.envVars
    /\ b.envVars[TagRepo] = repo
    /\ TagBranch \in DOMAIN b.envVars
    /\ b.envVars[TagBranch] = branch

\* IsInstanceOf without the comparison of the branch
IsInstanceOfRepoOnly(b, repo, branch) ==
    /\ TagRepo \in DOMAIN b.envVars
    /\ ToLower(b.envVars[TagRepo]) = ToLower(repo)

\* IsInstanceOf taking the templates of the repo as well
IsInstanceOfOrTemplate(b, repo, branch) ==
    \/ /\ TagRepo \in DOMAIN b.envVars
       /\ ToLower(b.envVars[TagRepo]) = ToLower(repo)
       /\ TagBranch \in DOMAIN b.envVars
       /\ ToLower(b.envVars[TagBranch]) = ToLower(branch)
    \/ IsTemplateFor(b, repo)

\* IsInstanceOf without the comparison of the repo
IsInstanceOfBranchOnly(b, repo, branch) ==
    /\ TagBranch \in DOMAIN b.envVars
    /\ ToLower(b.envVars[TagBranch]) = ToLower(branch)

\* the predicate deleteBot and integrateBot pass to getBotsWhere
IsInstanceOf(b, repo, branch) ==
    /\ TagRepo \in DOMAIN b.envVars
    /\ ToLower(b.envVars[TagRepo]) = ToLower(repo)
    /\ TagBranch \in DOMAIN b.envVars
    /\ ToLower(b.envVars[TagBranch]) = ToLower(branch)

\* getBots without the check of the count
getBotsAnyCount(reg, net) ==
    IF net # "ok" THEN [bots |-> <<>>, err |-> ErrTransport]
    ELSE [bots |-> reg, err |-> Nil]

\* getBots: the listing, or an error (network failure, or a count of zero)
getBots(reg, net) ==
    IF net # "ok" THEN [bots |-> <<>>, err |-> ErrTransport]
    ELSE IF Len(reg) = 0 THEN [bots |-> <<>>, err |-> ErrNoBots]
    ELSE [bots |-> reg, err |-> Nil]

\* getBotsWhere appending every bot, whatever pred says of it
getBotsWhereAll(bots, pred) == bots

\* getBotsWhere, given the listing: the loop appending bots[i] when pred holds
\* of it (pred[i] is the predicate's value on bots[i])
getBotsWhere(bots, pred) ==
    LET result[i \in 0..Len(bots)] ==
            IF i = 0 THEN <<>>
            ELSE IF pred[i] THEN Append(result[i - 1], bots[i])
            ELSE result[i - 1]
    IN  result[Len(bots)]

\* the filter of deleteBot and integrateBot on the listing of a registry
findInstances(reg, repo, branch) ==
    LET r == getBots(reg, "ok")
    IN  getBotsWhere(r.bots, [i \in 1..Len(r.bots) |-> IsInstanceOf(r.bots[i], repo, branch)])

\* the listing with its bots in the order p gives
Permute(bots, p) == [i \in 1..Len(bots) |-> bots[p[i]]]

NoFound == [set |-> FALSE, repo |-> "", branch |-> "", bs |-> <<>>, shuffled |-> <<>>,
            bsShuffled |-> <<>>]

-----------------------------------------------------------------------------
(* createBot: the bot submitted for one template *)

PrePoke ==
    Trigger(TypeScript, PhasePre, "Update Status",
            PokeStatusScript(myIP, Port, "inprogress"), NoConditions)

\* postPoke with the assignment of OnBuildErrors left out
PostPokeFourFlags ==
    Trigger(TypeScript, PhasePost, "Update Status",
            PokeStatusScript(myIP, Port, "${XCS_INTEGRATION_RESULT}"),
            [AllConditions EXCEPT !.onBuildErrors = FALSE])

PostPoke ==
    Trigger(TypeScript, PhasePost, "Update Status",
            PokeStatusScript(myIP, Port, "${XCS_INTEGRATION_RESULT}"), AllConditions)

SwitchBranch(branch) ==
    Trigger(TypeScript, PhasePre, "Switch Branch", SwitchBranchScript(branch), NoConditions)

\* the new triggers appended to the template's instead of put ahead of them
DeriveBotAppends(t, repo, branch) ==
    Bot(0,
        t.name \o "." \o branch,
        MapDelete(MapSet(MapSet(t.envVars, TagRepo, repo), TagBranch, branch), TagTemplate),
        t.triggers \o <<SwitchBranch(branch), PrePoke, PostPoke>>,
        ScheduleManual)

\* the template marker left in place and the schedule type inherited
DeriveBotKeepsMarker(t, repo, branch) ==
    Bot(0,
        t.name \o "." \o branch,
        MapSet(MapSet(t.envVars, TagRepo, repo), TagBranch, branch),
        <<SwitchBranch(branch), PrePoke, PostPoke>> \o t.triggers,
        t.scheduleType)

\* createBot, lines 430-452: the bot marshalled for template t
DeriveBot(t, repo, branch) ==
    Bot(0,
        t.name \o "." \o branch,
        MapDelete(MapSet(MapSet(t.envVars, TagRepo, repo), TagBranch, branch), TagTemplate),
        <<SwitchBranch(branch), PrePoke, PostPoke>> \o t.triggers,
        ScheduleManual)

-----------------------------------------------------------------------------
(* The CI server *)

HasBot(reg, id) == \E i \in 1..Len(reg) : reg[i].id = id

\* POST {base}/{id}/duplicate answered 201: a new bot holding the posted body
ServerDuplicate(reg, nid, body) == Append(reg, [body EXCEPT !.id = nid])

\* DELETE {base}/{id} answered 204: the bot is gone
ServerDelete(reg, id) == SelectSeq(reg, LAMBDA b : b.id # id)

\* what a remote write comes back with: a response carrying a status code, or
\* an error of the client (no response)
Answer(code) == [err |-> FALSE, code |-> code]

NoAnswer == [err |-> TRUE, code |-> 0]

\* the server did what was asked and says so with code success, or it did not
Responses(success) == {Answer(success), Answer(StatusInternalServerError), NoAnswer}

\* err == nil and resp.StatusCode == code
Expect(r, code) == ~ r.err /\ r.code = code

RemoteErr(r) == IF r.err THEN ErrTransport ELSE ErrRPCFailed

Call(op, id, ok, eff) == [op |-> op, id |-> id, ok |-> ok, eff |-> eff]

-----------------------------------------------------------------------------
(* The HTTP front *)

\* errorHandler.ServeHTTP: the response once the handler returned err having
\* called WriteHeader(code) (code 0: WriteHeader was not called, and net/http
\* sends 200 with the first write of the body or when the handler returns)
ServeHTTP(code, err) ==
    [status |-> IF code = 0 THEN StatusOK ELSE code,
     body |-> IF err = Nil THEN "" ELSE err]

\* the parameter checks in the order status, branch, repo
ValidateReversed(q) ==
    IF Len(q.status) < 1 THEN ErrMissingStatus
    ELSE IF Len(q.branch) < 1 THEN ErrMissingBranch
    ELSE IF Len(q.repo) < 1 THEN ErrMissingRepo
    ELSE Nil

\* handlePullRequestUpdated, lines 221-237: the parameter checks
Validate(q) ==
    IF Len(q.repo) < 1 THEN ErrMissingRepo
    ELSE IF Len(q.branch) < 1 THEN ErrMissingBranch
    ELSE IF Len(q.status) < 1 THEN ErrMissingStatus
    ELSE Nil

\* the switch on status[0] as received
RouteExact(status) ==
    IF status \in {"opened", "reopened"} THEN "createBot"
    ELSE IF status \in {"closed", "declined"} THEN "deleteBot"
    ELSE IF status = "rescoped_from" THEN "integrateBot"
    ELSE "default"

\* the switch with rescoped_from among the cases of opened
RouteRescopedCreates(status) ==
    IF ToLower(status) \in {"opened", "reopened", "rescoped_from"} THEN "createBot"
    ELSE IF ToLower(status) \in {"closed", "declined"} THEN "deleteBot"
    ELSE "default"

\* the switch with the cases of closed as its default
RouteDefaultDeletes(status) ==
    IF ToLower(status) \in {"opened", "reopened"} THEN "createBot"
    ELSE IF ToLower(status) = "rescoped_from" THEN "integrateBot"
    ELSE "deleteBot"

\* handlePullRequestUpdated, the switch on strings.ToLower(status[0])
Route(status) ==
    LET s == ToLower(status) IN
    IF s \in {"opened", "reopened"} THEN "createBot"
    ELSE IF s \in {"closed", "declined"} THEN "deleteBot"
    ELSE IF s = "rescoped_from" THEN "integrateBot"
    ELSE "default"

InFlight == {"createBot", "duplicate", "integrateBot", "integrate", "deleteBot", "delete"}

AllOk(cs) == \A i \in 1..Len(cs) : cs[i].ok

\* a handler that has no request
Idle ==
    [pc |-> "idle", req |-> NoRequest, listing |-> <<>>, sel |-> <<>>, idx |-> 0,
     calls |-> <<>>, alone |-> TRUE, before |-> {}, prev |-> NoRequest]

NoResponse == [status |-> 0, body |-> ""]

NoFin ==
    [set |-> FALSE, req |-> NoRequest, listing |-> <<>>, sel |-> <<>>, calls |-> <<>>,
     alone |-> TRUE, before |-> {}, prev |-> NoRequest, err |-> Nil,
     resp |-> NoResponse, after |-> {}]

\* what is kept of a request once its handler (state cur) has returned err after
\* WriteHeader(code), the registry then being reg
Summary(cur, code, err, reg) ==
    [set |-> TRUE, req |-> cur.req, listing |-> cur.listing, sel |-> cur.sel,
     calls |-> cur.calls, alone |-> cur.alone, before |-> cur.before, prev |-> cur.prev,
     err |-> err, resp |-> ServeHTTP(code, err), after |-> Ids(reg)]

\* the handler returns: its locals are gone, the response is written
Return(h, cur, code, err, reg) ==
    /\ handler' = [handler EXCEPT ![h] = Idle]
    /\ fin' = Summary(cur, code, err, reg)
    /\ last' = IF cur.alone /\ code = StatusCreated THEN cur.req ELSE NoRequest

\* return err, WriteHeader forgotten
FailNoHeader(h, cur, err, reg) == Return(h, cur, 0, err, reg)

\* w.WriteHeader(500); return err
Fail(h, cur, err, reg) == Return(h, cur, StatusInternalServerError, err, reg)

\* the handler goes on to its next remote call
Goto(h, cur) ==
    /\ handler' = [handler EXCEPT ![h] = cur]
    /\ fin' = NoFin
    /\ UNCHANGED last

-----------------------------------------------------------------------------
(* The integration-result relay *)

\* config.BitbucketURL as configured, its scheme apart (the variable scheme)
BitbucketHost == "bitbucket.local"
BitbucketPath == <<"stash">>

Schemes == {"", "https"}

RelayStatuses ==
    {"inprogress", "InProgress", "succeeded", "Succeeded", "warnings", "trigger-error",
     "internal-build-error", "build-errors", "BUILD-ERRORS", "canceled", "Checkout-Error"}

NoRelayRequest == [commit |-> <<>>, status |-> <<>>, bot |-> <<>>, integration |-> <<>>]

\* the requests carrying all four parameters, and requests lacking some
RelayRequests ==
    [commit : {<<"abc123">>}, status : {<<s>> : s \in RelayStatuses},
     bot : {<<"app.ios.fx">>}, integration : {<<"7">>}]
    \cup { [commit |-> <<"def456">>, status |-> <<"warnings">>, bot |-> <<"app.watch.fx">>,
            integration |-> <<"12">>],
           NoRelayRequest,
           [NoRelayRequest EXCEPT !.status = <<"succeeded">>, !.bot = <<"app.ios.fx">>,
                                  !.integration = <<"7">>],
           [NoRelayRequest EXCEPT !.commit = <<"abc123">>, !.bot = <<"app.ios.fx">>,
                                  !.integration = <<"7">>],
           [NoRelayRequest EXCEPT !.commit = <<"abc123">>, !.status = <<"succeeded">>,
                                  !.integration = <<"7">>],
           [NoRelayRequest EXCEPT !.commit = <<"abc123">>, !.status = <<"canceled">>,
                                  !.bot = <<"app.ios.fx">>],
           [NoRelayRequest EXCEPT !.commit = <<"abc123">>] }

\* handleIntegrationUpdated, lines 291-307: the parameter checks
RelayValidate(q) ==
    IF Len(q.commit) < 1 THEN ErrNoCommit
    ELSE IF Len(q.status) < 1 THEN ErrNoStatus
    ELSE IF Len(q.bot) < 1 THEN ErrNoBot
    ELSE IF Len(q.integration) < 1 THEN ErrNoIntegration
    ELSE Nil

\* the switch on status as received
BuildStateExact(status) ==
    IF status = "inprogress" THEN [state |-> "INPROGRESS", desc |-> ""]
    ELSE IF status \in {"succeeded", "warnings"} THEN [state |-> "SUCCESSFUL", desc |-> ""]
    ELSE IF status \in {"trigger-error", "internal-build-error", "build-errors"}
    THEN [state |-> "FAILED", desc |-> ""]
    ELSE [state |-> "FAILED", desc |-> "xcode returned: " \o status]

\* handleIntegrationUpdated, lines 317-327: the switch on strings.ToLower(status[0])
BuildState(status) ==
    LET s == ToLower(status) IN
    IF s = "inprogress" THEN [state |-> "INPROGRESS", desc |-> ""]
    ELSE IF s \in {"succeeded", "warnings"} THEN [state |-> "SUCCESSFUL", desc |-> ""]
    ELSE IF s \in {"trigger-error", "internal-build-error", "build-errors"}
    THEN [state |-> "FAILED", desc |-> ""]
    ELSE [state |-> "FAILED", desc |-> "xcode returned: " \o status]

\* the payload with the integration left out of its name
BuildStatusBareName(q) ==
    [state |-> BuildState(q.status[1]).state,
     key |-> q.bot[1],
     name |-> q.bot[1],
     url |-> "http://example.com/",
     description |-> BuildState(q.status[1]).desc]

\* handleIntegrationUpdated, lines 309-330: the payload (a name or description
\* that is empty is left out of the JSON text)
BuildStatus(q) ==
    [state |-> BuildState(q.status[1]).state,
     key |-> q.bot[1],
     name |-> q.bot[1] \o ":" \o q.integration[1],
     url |-> "http://example.com/",
     description |-> BuildState(q.status[1]).desc]

\* path.Join on paths given as their elements: empty elements are dropped
PathJoin(a, b) == SelectSeq(a \o b, LAMBDA e : e # "")

\* handleIntegrationUpdated, lines 337-340: the address of the POST
CommitURL(sch, commit) ==
    [scheme |-> sch,
     host |-> BitbucketHost,
     path |-> PathJoin(PathJoin(BitbucketPath, <<"rest", "build-status", "1.0", "commits">>),
                       <<commit>>)]

\* bitbucketClient.Post: a response (its code is not looked at) or an error
RelayResponses ==
    {Answer(StatusNoContent), Answer(StatusBadRequest), Answer(StatusInternalServerError),
     NoAnswer}

\* the deferred function writing 200 whatever success says
DeferredStatusAlways200(success) == StatusOK

\* handleIntegrationUpdated, lines 278-284: the deferred WriteHeader
DeferredStatus(success) == IF success THEN StatusOK ELSE StatusInternalServerError

NoPost == [url |-> [scheme |-> "", host |-> "", path |-> <<>>], body |-> <<>>]

IdleRelay == [pc |-> "idle", req |-> NoRelayRequest, post |-> NoPost]

\* no order of arrival is set: any request may arrive
NoScript == <<>>

\* main, line 634: l := &logger{&sync.Mutex{}, [][]byte{}}
NewLogger == [m |-> "free", logs |-> <<>>]

\* no /logs request is being served
NoDump == [pc |-> "idle", out |-> <<>>, served |-> 0]

NoRFin ==
    [set |-> FALSE, req |-> NoRelayRequest, posts |-> <<>>, answer |-> NoAnswer,
     answered |-> FALSE, err |-> Nil, resp |-> NoResponse]

\* what is kept of a relay request once its handler has returned err (success
\* telling the deferred function which header to write), having issued the
\* POSTs posts, the last of them with the outcome answer
RelaySummary(q, posts, answer, success, err) ==
    [set |-> TRUE, req |-> q, posts |-> posts, answer |-> answer,
     answered |-> ~ answer.err, err |-> err,
     resp |-> ServeHTTP(DeferredStatus(success), err)]

-----------------------------------------------------------------------------
(* Actions *)

Init ==
    /\ registry \in InitRegistries
    /\ nextId = FirstFreeId
    /\ handler = [h \in Handlers |-> Idle]
    /\ arrived = 0
    /\ fin = NoFin
    /\ last = NoRequest
    /\ relay = [h \in Handlers |-> IdleRelay]
    /\ rfin = NoRFin
    /\ scheme = "https"
    /\ found = NoFound
    /\ script = NoScript
    /\ logger = NewLogger
    /\ writes = <<>>
    /\ dump = NoDump

\* the requests that may arrive now
Incoming ==
    IF script = NoScript THEN Requests
    ELSE IF arrived < Len(script) THEN {script[arrived + 1]}
    ELSE {}

\* a request arrives: parameter checks and dispatch, up to the first remote call
handlePullRequestUpdated(h) ==
    /\ handler[h].pc = "idle"
    /\ \A g \in Handlers : g < h => handler[g].pc # "idle"
    /\ arrived < MaxRequests
    /\ arrived' = arrived + 1
    /\ \E q \in Incoming :
        LET quiet == \A g \in Handlers : handler[g].pc \notin InFlight
            cur == [Idle EXCEPT
                      !.req = q,
                      !.alone = quiet,
                      !.before = Ids(registry),
                      !.prev = IF quiet THEN last ELSE NoRequest]
            others == [g \in Handlers |->
                         IF handler[g].pc \in InFlight
                         THEN [handler[g] EXCEPT !.alone = FALSE] ELSE handler[g]]
        IN  IF Validate(q) # Nil
            THEN /\ handler' = [others EXCEPT ![h] = Idle]
                 /\ fin' = Summary(cur, StatusBadRequest, Validate(q), registry)
                 /\ last' = NoRequest
            ELSE IF Route(q.status[1]) = "default"
            THEN /\ handler' = [others EXCEPT ![h] = Idle]
                 /\ fin' = Summary(cur, 0, ErrUnknownStatus, registry)
                 /\ last' = NoRequest
            ELSE /\ handler' = [others EXCEPT ![h] = [cur EXCEPT !.pc = Route(q.status[1])]]
                 /\ fin' = NoFin
                 /\ UNCHANGED last
    /\ UNCHANGED <<registry, nextId>>
    /\ UNCHANGED <<relay, rfin, scheme, found, script, logger, writes, dump>>

\* createBot, lines 413-426: list the bots and keep the templates of the repo
createBotList(h) ==
    /\ handler[h].pc = "createBot"
    /\ \E net \in {"ok", "neterr"} :
        LET me == handler[h]
            r == getBots(registry, net)
            tb == getBotsWhere(r.bots, [i \in 1..Len(r.bots) |-> IsTemplateFor(r.bots[i], me.req.repo[1])])
            cur == [me EXCEPT !.calls = Append(@, Call("list", 0, net = "ok", "none")),
                              !.listing = r.bots,
                              !.sel = tb]
        IN  IF r.err # Nil
            THEN Fail(h, cur, r.err, registry)
            ELSE IF Len(tb) < 1
            THEN Fail(h, cur, ErrNoTemplates, registry)
            ELSE Goto(h, [cur EXCEPT !.pc = "duplicate", !.idx = 1])
    /\ UNCHANGED <<registry, nextId, arrived>>
    /\ UNCHANGED <<relay, rfin, scheme, found, script, logger, writes, dump>>

\* the loop going on to the next template after a failed call, the error
\* returned once the loop is over
createBotDuplicateGoesOn(h) ==
    /\ handler[h].pc = "duplicate"
    /\ \E r \in Responses(StatusCreated) :
        LET me == handler[h]
            t == me.sel[me.idx]
            body == DeriveBot(t, me.req.repo[1], me.req.branch[1])
            ok == Expect(r, StatusCreated)
            cur == [me EXCEPT !.sel[me.idx] = body,
                              !.calls = Append(@, Call("duplicate", t.id, ok,
                                                       IF ok THEN "add" ELSE "none"))]
        IN  /\ r = Answer(StatusCreated) => HasBot(registry, t.id)
            /\ IF ok
               THEN /\ registry' = ServerDuplicate(registry, nextId, body)
                    /\ nextId' = nextId + 1
               ELSE UNCHANGED <<registry, nextId>>
            /\ IF me.idx < Len(me.sel)
               THEN Goto(h, [cur EXCEPT !.idx = @ + 1])
               ELSE IF AllOk(cur.calls)
               THEN Goto(h, [cur EXCEPT !.pc = "integrateBot"])
               ELSE Fail(h, cur, ErrRPCFailed, registry')
    /\ UNCHANGED arrived
    /\ UNCHANGED <<relay, rfin, scheme, found, script, logger, writes, dump>>

\* createBot, lines 428-469: one turn of the loop over the templates
createBotDuplicate(h) ==
    /\ handler[h].pc = "duplicate"
    /\ \E r \in Responses(StatusCreated) :
        LET me == handler[h]
            t == me.sel[me.idx]
            body == DeriveBot(t, me.req.repo[1], me.req.branch[1])
            ok == Expect(r, StatusCreated)
            cur == [me EXCEPT !.sel[me.idx] = body,
                              !.calls = Append(@, Call("duplicate", t.id, ok,
                                                       IF ok THEN "add" ELSE "none"))]
        IN  /\ r = Answer(StatusCreated) => HasBot(registry, t.id)
            /\ IF ok
               THEN /\ registry' = ServerDuplicate(registry, nextId, body)
                    /\ nextId' = nextId + 1
                    /\ IF me.idx = Len(me.sel)
                       THEN Goto(h, [cur EXCEPT !.pc = "integrateBot"])
                       ELSE Goto(h, [cur EXCEPT !.idx = @ + 1])
               ELSE /\ Fail(h, cur, RemoteErr(r), registry)
                    /\ UNCHANGED <<registry, nextId>>
    /\ UNCHANGED arrived
    /\ UNCHANGED <<relay, rfin, scheme, found, script, logger, writes, dump>>

\* integrateBot working on the listing createBot fetched, when there is one
integrateBotListReuses(h) ==
    /\ handler[h].pc = "integrateBot"
    /\ \E net \in {"ok", "neterr"} :
        LET me == handler[h]
            r == IF Len(me.listing) > 0
                 THEN [bots |-> me.listing, err |-> Nil]
                 ELSE getBots(registry, net)
            bs == getBotsWhere(r.bots, [i \in 1..Len(r.bots) |->
                                          IsInstanceOf(r.bots[i], me.req.repo[1], me.req.branch[1])])
            cur == [me EXCEPT !.calls = Append(@, Call("list", 0, net = "ok", "none")),
                              !.listing = r.bots,
                              !.sel = bs]
        IN  IF r.err # Nil
            THEN Fail(h, cur, r.err, registry)
            ELSE IF Len(bs) < 1
            THEN Fail(h, cur, ErrNoBotsFound, registry)
            ELSE Goto(h, [cur EXCEPT !.pc = "integrate", !.idx = 1])
    /\ UNCHANGED <<registry, nextId, arrived>>
    /\ UNCHANGED <<relay, rfin, scheme, found, script, logger, writes, dump>>

\* integrateBot, lines 515-530: list the bots and keep those of (repo, branch)
integrateBotList(h) ==
    /\ handler[h].pc = "integrateBot"
    /\ \E net \in {"ok", "neterr"} :
        LET me == handler[h]
            r == getBots(registry, net)
            bs == getBotsWhere(r.bots, [i \in 1..Len(r.bots) |->
                                          IsInstanceOf(r.bots[i], me.req.repo[1], me.req.branch[1])])
            cur == [me EXCEPT !.calls = Append(@, Call("list", 0, net = "ok", "none")),
                              !.listing = r.bots,
                              !.sel = bs]
        IN  IF r.err # Nil
            THEN Fail(h, cur, r.err, registry)
            ELSE IF Len(bs) < 1
            THEN Fail(h, cur, ErrNoBotsFound, registry)
            ELSE Goto(h, [cur EXCEPT !.pc = "integrate", !.idx = 1])
    /\ UNCHANGED <<registry, nextId, arrived>>
    /\ UNCHANGED <<relay, rfin, scheme, found, script, logger, writes, dump>>

\* the loop sending the request again after a failure
integrateBotPostRetries(h) ==
    /\ handler[h].pc = "integrate"
    /\ \E r \in Responses(StatusCreated) :
        LET me == handler[h]
            b == me.sel[me.idx]
            ok == Expect(r, StatusCreated)
            cur == [me EXCEPT !.calls = Append(@, Call("integrate", b.id, ok, "none"))]
        IN  /\ r = Answer(StatusCreated) => HasBot(registry, b.id)
            /\ IF ~ ok
               THEN Goto(h, cur)
               ELSE IF me.idx = Len(me.sel)
               THEN Return(h, cur, StatusCreated, Nil, registry)
               ELSE Goto(h, [cur EXCEPT !.idx = @ + 1])
    /\ UNCHANGED <<registry, nextId, arrived>>
    /\ UNCHANGED <<relay, rfin, scheme, found, script, logger, writes, dump>>

\* integrateBot, lines 532-543: one turn of the loop over the matching bots
integrateBotPost(h) ==
    /\ handler[h].pc = "integrate"
    /\ \E r \in Responses(StatusCreated) :
        LET me == handler[h]
            b == me.sel[me.idx]
            ok == Expect(r, StatusCreated)
            cur == [me EXCEPT !.calls = Append(@, Call("integrate", b.id, ok, "none"))]
        IN  /\ r = Answer(StatusCreated) => HasBot(registry, b.id)
            /\ IF ~ ok
               THEN Fail(h, cur, RemoteErr(r), registry)
               ELSE IF me.idx = Len(me.sel)
               THEN Return(h, cur, StatusCreated, Nil, registry)
               ELSE Goto(h, [cur EXCEPT !.idx = @ + 1])
    /\ UNCHANGED <<registry, nextId, arrived>>
    /\ UNCHANGED <<relay, rfin, scheme, found, script, logger, writes, dump>>

\* deleteBot, lines 475-491: list the bots and keep those of (repo, branch)
deleteBotList(h) ==
    /\ handler[h].pc = "deleteBot"
    /\ \E net \in {"ok", "neterr"} :
        LET me == handler[h]
            r == getBots(registry, net)
            bs == getBotsWhere(r.bots, [i \in 1..Len(r.bots) |->
                                          IsInstanceOf(r.bots[i], me.req.repo[1], me.req.branch[1])])
            cur == [me EXCEPT !.calls = Append(@, Call("list", 0, net = "ok", "none")),
                              !.listing = r.bots,
                              !.sel = bs]
        IN  IF r.err # Nil
            THEN Fail(h, cur, r.err, registry)
            ELSE IF Len(bs) < 1
            THEN Fail(h, cur, ErrNoBotsFound, registry)
            ELSE Goto(h, [cur EXCEPT !.pc = "delete", !.idx = 1])
    /\ UNCHANGED <<registry, nextId, arrived>>
    /\ UNCHANGED <<relay, rfin, scheme, found, script, logger, writes, dump>>

\* the loop going on to the next match after a failed call, the error
\* returned once the loop is over
deleteBotDeleteGoesOn(h) ==
    /\ handler[h].pc = "delete"
    /\ \E r \in Responses(StatusNoContent) :
        LET me == handler[h]
            b == me.sel[me.idx]
            ok == Expect(r, StatusNoContent)
            cur == [me EXCEPT !.calls = Append(@, Call("delete", b.id, ok,
                                                       IF ok THEN "remove" ELSE "none"))]
        IN  /\ r = Answer(StatusNoContent) => HasBot(registry, b.id)
            /\ registry' = IF ok THEN ServerDelete(registry, b.id) ELSE registry
            /\ IF me.idx < Len(me.sel)
               THEN Goto(h, [cur EXCEPT !.idx = @ + 1])
               ELSE IF AllOk(cur.calls)
               THEN Return(h, cur, StatusCreated, Nil, registry')
               ELSE Fail(h, cur, ErrRPCFailed, registry')
    /\ UNCHANGED <<nextId, arrived>>
    /\ UNCHANGED <<relay, rfin, scheme, found, script, logger, writes, dump>>

\* the loop left with success after its first turn
deleteBotDeleteFirstOnly(h) ==
    /\ handler[h].pc = "delete"
    /\ \E r \in Responses(StatusNoContent) :
        LET me == handler[h]
            b == me.sel[me.idx]
            ok == Expect(r, StatusNoContent)
            cur == [me EXCEPT !.calls = Append(@, Call("delete", b.id, ok,
                                                       IF ok THEN "remove" ELSE "none"))]
        IN  /\ r = Answer(StatusNoContent) => HasBot(registry, b.id)
            /\ IF ~ ok
               THEN /\ Fail(h, cur, RemoteErr(r), registry)
                    /\ UNCHANGED registry
               ELSE /\ registry' = ServerDelete(registry, b.id)
                    /\ Return(h, cur, StatusCreated, Nil, registry')
    /\ UNCHANGED <<nextId, arrived>>
    /\ UNCHANGED <<relay, rfin, scheme, found, script, logger, writes, dump>>

\* deleteBot, lines 493-509: one turn of the loop over the matching bots
deleteBotDelete(h) ==
    /\ handler[h].pc = "delete"
    /\ \E r \in Responses(StatusNoContent) :
        LET me == handler[h]
            b == me.sel[me.idx]
            ok == Expect(r, StatusNoContent)
            cur == [me EXCEPT !.calls = Append(@, Call("delete", b.id, ok,
                                                       IF ok THEN "remove" ELSE "none"))]
        IN  /\ r = Answer(StatusNoContent) => HasBot(registry, b.id)
            /\ IF ~ ok
               THEN /\ Fail(h, cur, RemoteErr(r), registry)
                    /\ UNCHANGED registry
               ELSE /\ registry' = ServerDelete(registry, b.id)
                    /\ IF me.idx = Len(me.sel)
                       THEN Return(h, cur, StatusCreated, Nil, registry')
                       ELSE Goto(h, [cur EXCEPT !.idx = @ + 1])
    /\ UNCHANGED <<nextId, arrived>>
    /\ UNCHANGED <<relay, rfin, scheme, found, script, logger, writes, dump>>

Next ==
    \/ \E h \in Handlers : handlePullRequestUpdated(h)
    \/ \E h \in Handlers : createBotList(h)
    \/ \E h \in Handlers : createBotDuplicate(h)
    \/ \E h \in Handlers : integrateBotList(h)
    \/ \E h \in Handlers : integrateBotPost(h)
    \/ \E h \in Handlers : deleteBotList(h)
    \/ \E h \in Handlers : deleteBotDelete(h)

Spec == Init /\ [][Next]_vars

-----------------------------------------------------------------------------
(* The relay on its own: /integrationUpdated requests, no pull-request event *)

InitRelay ==
    /\ registry = <<>>
    /\ nextId = FirstFreeId
    /\ handler = [h \in Handlers |-> Idle]
    /\ arrived = 0
    /\ fin = NoFin
    /\ last = NoRequest
    /\ relay = [h \in Handlers |-> IdleRelay]
    /\ rfin = NoRFin
    /\ scheme \in Schemes
    /\ found = NoFound
    /\ script = NoScript
    /\ logger = NewLogger
    /\ writes = <<>>
    /\ dump = NoDump

\* lines 291-340: the parameters are checked and the payload is built, up to
\* the POST to the URL copied from the configuration, whose scheme is sch
relayBuild(h, q, sch) ==
    IF RelayValidate(q) # Nil
    THEN /\ rfin' = RelaySummary(q, <<>>, NoAnswer, FALSE, RelayValidate(q))
         /\ relay' = [relay EXCEPT ![h] = IdleRelay]
    ELSE /\ relay' = [relay EXCEPT ![h] =
                        [pc |-> "post", req |-> q,
                         post |-> [url |-> CommitURL(sch, q.commit[1]),
                                   body |-> BuildStatus(q)]]]
         /\ rfin' = NoRFin

\* a request arrives, lines 277-289: the scheme of the configured URL is read;
\* when it is empty the handler goes on to assign it, else to the parameters
handleIntegrationUpdated(h) ==
    /\ relay[h].pc = "idle"
    /\ \A g \in Handlers : g < h => relay[g].pc # "idle"
    /\ arrived < MaxRequests
    /\ arrived' = arrived + 1
    /\ \E q \in RelayRequests :
        IF scheme = ""
        THEN /\ relay' = [relay EXCEPT ![h] = [pc |-> "scheme", req |-> q, post |-> NoPost]]
             /\ rfin' = NoRFin
        ELSE relayBuild(h, q, scheme)
    /\ UNCHANGED scheme
    /\ UNCHANGED <<registry, nextId, handler, fin, last, found>>
    /\ UNCHANGED <<script, logger, writes, dump>>

\* line 288: config.BitbucketURL.Scheme = "http", an unsynchronized write to
\* the configuration every handler reads.  Every such write stores the same
\* value, so a handler copying the URL meanwhile reads "http" whichever write
\* it sees.
defaultScheme(h) ==
    /\ relay[h].pc = "scheme"
    /\ scheme' = "http"
    /\ relayBuild(h, relay[h].req, scheme')
    /\ UNCHANGED <<registry, nextId, handler, arrived, fin, last, found>>
    /\ UNCHANGED <<script, logger, writes, dump>>

\* the handler taking any answer but 204 No Content for a failure
relayPostChecksCode(h) ==
    /\ relay[h].pc = "post"
    /\ \E r \in RelayResponses :
        rfin' = RelaySummary(relay[h].req, <<relay[h].post>>, r, Expect(r, StatusNoContent),
                             IF Expect(r, StatusNoContent) THEN Nil ELSE RemoteErr(r))
    /\ relay' = [relay EXCEPT ![h] = IdleRelay]
    /\ UNCHANGED <<registry, nextId, handler, arrived, fin, last, scheme, found>>
    /\ UNCHANGED <<script, logger, writes, dump>>

\* bitbucketClient.Post returns, lines 341-347
relayPost(h) ==
    /\ relay[h].pc = "post"
    /\ \E r \in RelayResponses :
        rfin' = RelaySummary(relay[h].req, <<relay[h].post>>, r, ~ r.err,
                             IF r.err THEN ErrTransport ELSE Nil)
    /\ relay' = [relay EXCEPT ![h] = IdleRelay]
    /\ UNCHANGED <<registry, nextId, handler, arrived, fin, last, scheme, found>>
    /\ UNCHANGED <<script, logger, writes, dump>>

NextRelay ==
    \/ \E h \in Handlers : handleIntegrationUpdated(h)
    \/ \E h \in Handlers : defaultScheme(h)
    \/ \E h \in Handlers : relayPost(h)

SpecRelay == InitRelay /\ [][NextRelay]_vars

-----------------------------------------------------------------------------
(* The instance filter on its own: any listing, any (repo, branch) *)

FilterRepos == {"app", "App", "lib"}
FilterBranches == {"fx", "FX"}

InitFilter ==
    /\ registry \in Listings
    /\ nextId = FirstFreeId
    /\ handler = [h \in Handlers |-> Idle]
    /\ arrived = 0
    /\ fin = NoFin
    /\ last = NoRequest
    /\ relay = [h \in Handlers |-> IdleRelay]
    /\ rfin = NoRFin
    /\ scheme = "https"
    /\ found = NoFound
    /\ script = NoScript
    /\ logger = NewLogger
    /\ writes = <<>>
    /\ dump = NoDump

\* the filter is applied to the listing, once, and to the same bots listed in
\* another order
filterInstances ==
    /\ ~ found.set
    /\ \E repo \in FilterRepos, branch \in FilterBranches :
        \E p \in Permutations(1..Len(registry)) :
            found' = [set |-> TRUE, repo |-> repo, branch |-> branch,
                      bs |-> findInstances(registry, repo, branch),
                      shuffled |-> Permute(registry, p),
                      bsShuffled |-> findInstances(Permute(registry, p), repo, branch)]
    /\ UNCHANGED <<registry, nextId, handler, arrived, fin, last, relay, rfin, scheme>>
    /\ UNCHANGED <<script, logger, writes, dump>>

NextFilter == filterInstances

SpecFilter == InitFilter /\ [][NextFilter]_vars

-----------------------------------------------------------------------------
(* Both endpoints served by the same process: pull-request events and        *)
(* integration results arrive in any order and their handlers interleave.    *)
(* The CI server starts with a template, an instance of it and an instance   *)
(* of another branch.                                                        *)

InitAll ==
    /\ registry = <<TemplateA, OldInstance, DevInstance>>
    /\ nextId = FirstFreeId
    /\ handler = [h \in Handlers |-> Idle]
    /\ arrived = 0
    /\ fin = NoFin
    /\ last = NoRequest
    /\ relay = [h \in Handlers |-> IdleRelay]
    /\ rfin = NoRFin
    /\ scheme \in Schemes
    /\ found = NoFound
    /\ script = NoScript
    /\ logger = NewLogger
    /\ writes = <<>>
    /\ dump = NoDump

NextAll == Next \/ NextRelay

SpecAll == InitAll /\ [][NextAll]_vars

-----------------------------------------------------------------------------
(* An opened event followed by a closed event for the same branch, the       *)
(* second arriving at any moment after the first has arrived.                *)

Event(status) == [repo |-> <<"app">>, branch |-> <<"fx">>, status |-> <<status>>]

Scripts == {<<Event("opened"), Event("closed")>>, <<Event("Reopened"), Event("DECLINED")>>}

InitRace ==
    /\ registry \in InitRegistries
    /\ nextId = FirstFreeId
    /\ handler = [h \in Handlers |-> Idle]
    /\ arrived = 0
    /\ fin = NoFin
    /\ last = NoRequest
    /\ relay = [h \in Handlers |-> IdleRelay]
    /\ rfin = NoRFin
    /\ scheme = "https"
    /\ found = NoFound
    /\ script \in Scripts
    /\ logger = NewLogger
    /\ writes = <<>>
    /\ dump = NoDump

SpecRace == InitRace /\ [][Next]_vars

-----------------------------------------------------------------------------
(* The log buffer, lines 179-204.  log.SetOutput (line 635) sends every line *)
(* the handlers log to logger.Write, one call after the other (the log       *)
(* package serializes them); each call starts a goroutine that appends the   *)
(* line under the mutex, and GET /logs writes the buffer out under it.       *)

\* the lines the opened case logs, in program order (lines 241, 246, 247, 252)
OpenedLog ==
    <<"creating bot", "successfully created bot", "updating bot", "successfully updated bot">>

\* the lines a handler logs: the first serves an opened event, the others a
\* request without "repo", whose error errorHandler logs (line 216)
LinesOf(h) ==
    IF h = 1
    THEN SubSeq(OpenedLog, 1, IF MaxLines < Len(OpenedLog) THEN MaxLines ELSE Len(OpenedLog))
    ELSE <<ErrMissingRepo>>

\* number of lines handler h has passed to logger.Write
Logged(h) == Cardinality({i \in 1..Len(writes) : writes[i].line.h = h})

InitLog ==
    /\ registry = <<>>
    /\ nextId = FirstFreeId
    /\ handler = [h \in Handlers |-> Idle]
    /\ arrived = 0
    /\ fin = NoFin
    /\ last = NoRequest
    /\ relay = [h \in Handlers |-> IdleRelay]
    /\ rfin = NoRFin
    /\ scheme = "https"
    /\ found = NoFound
    /\ script = NoScript
    /\ logger = NewLogger
    /\ writes = <<>>
    /\ dump = NoDump

\* logger.Write, lines 198-204: the line is copied, a goroutine is started
\* for it and the call returns; the mutex is not touched
loggerWrite(h) ==
    /\ Logged(h) < Len(LinesOf(h))
    /\ writes' = Append(writes, [line |-> [h |-> h, n |-> Logged(h) + 1,
                                          text |-> LinesOf(h)[Logged(h) + 1]],
                                pc |-> "go"])
    /\ UNCHANGED <<logger, dump>>
    /\ UNCHANGED <<registry, nextId, handler, arrived, fin, last, relay, rfin, scheme, found,
                   script>>

\* logger.write taking the buffer without the mutex
writeLockNoWait(i) ==
    /\ i \in 1..Len(writes)
    /\ writes[i].pc = "go"
    /\ logger' = [logger EXCEPT !.m = "write"]
    /\ writes' = [writes EXCEPT ![i].pc = "locked"]
    /\ UNCHANGED dump
    /\ UNCHANGED <<registry, nextId, handler, arrived, fin, last, relay, rfin, scheme, found,
                   script>>

\* logger.write, line 193: l.m.Lock() in the goroutine of the i-th line
writeLock(i) ==
    /\ i \in 1..Len(writes)
    /\ writes[i].pc = "go"
    /\ logger.m = "free"
    /\ logger' = [logger EXCEPT !.m = "write"]
    /\ writes' = [writes EXCEPT ![i].pc = "locked"]
    /\ UNCHANGED dump
    /\ UNCHANGED <<registry, nextId, handler, arrived, fin, last, relay, rfin, scheme, found,
                   script>>

\* logger.write, lines 194-195: the append, and the deferred Unlock
writeAppend(i) ==
    /\ i \in 1..Len(writes)
    /\ writes[i].pc = "locked"
    /\ logger' = [m |-> "free", logs |-> Append(logger.logs, writes[i].line)]
    /\ writes' = [writes EXCEPT ![i].pc = "done"]
    /\ UNCHANGED dump
    /\ UNCHANGED <<registry, nextId, handler, arrived, fin, last, relay, rfin, scheme, found,
                   script>>

\* logger.ServeHTTP, line 185: l.m.Lock() of a GET /logs
logsLock ==
    /\ dump.pc = "idle"
    /\ dump.served < MaxDumps
    /\ logger.m = "free"
    /\ logger' = [logger EXCEPT !.m = "dump"]
    /\ dump' = [dump EXCEPT !.pc = "locked"]
    /\ UNCHANGED writes
    /\ UNCHANGED <<registry, nextId, handler, arrived, fin, last, relay, rfin, scheme, found,
                   script>>

\* logger.ServeHTTP, lines 186-189: every line is written out, and the
\* deferred Unlock
logsDump ==
    /\ dump.pc = "locked"
    /\ dump' = [pc |-> "idle", out |-> logger.logs, served |-> dump.served + 1]
    /\ logger' = [logger EXCEPT !.m = "free"]
    /\ UNCHANGED writes
    /\ UNCHANGED <<registry, nextId, handler, arrived, fin, last, relay, rfin, scheme, found,
                   script>>

\* the goroutines there can be
MaxWrites == Len(LinesOf(1)) + Len(LinesOf(2))

NextLog ==
    \/ \E h \in Handlers : loggerWrite(h)
    \/ \E i \in 1..MaxWrites : writeLock(i)
    \/ \E i \in 1..MaxWrites : writeAppend(i)
    \/ logsLock
    \/ logsDump

\* a started goroutine is scheduled; sync.Mutex hands the mutex to a waiter
\* that keeps being passed over, so a goroutine waiting in Lock gets it when
\* it is released again and again; who holds the mutex goes on to release it
\* (for ServeHTTP: once the client has taken the lines or the connection has
\* failed, each w.Write then returning at once)
FairLog ==
    /\ \A i \in 1..MaxWrites : SF_vars(writeLock(i)) /\ WF_vars(writeAppend(i))
    /\ WF_vars(logsDump)

SpecLog == InitLog /\ [][NextLog]_vars /\ FairLog

-----------------------------------------------------------------------------
(* Vocabulary of the properties.  Letter case is folded here by an explicit  *)
(* list of the spellings in use, independently of ToLower.                   *)

FoldClasses == {{"app", "App"}, {"fx", "FX"}, {"dev"}, {"lib"}}

SameFold(a, b) == a = b \/ \E c \in FoldClasses : a \in c /\ b \in c

OpenedForms == {"opened", "Reopened"}
ClosedForms == {"closed", "DECLINED"}
RescopedForms == {"rescoped_from"}
RecognizedForms == OpenedForms \cup ClosedForms \cup RescopedForms

Complete(q) == Len(q.repo) > 0 /\ Len(q.branch) > 0 /\ Len(q.status) > 0

IsEvent(q, forms) == Complete(q) /\ q.status[1] \in forms

Tagged(b, repo, branch) ==
    /\ {TagRepo, TagBranch} \subseteq DOMAIN b.envVars
    /\ SameFold(b.envVars[TagRepo], repo)
    /\ SameFold(b.envVars[TagBranch], branch)

TemplateOf(b, repo) ==
    /\ TagTemplate \in DOMAIN b.envVars
    /\ SameFold(b.envVars[TagTemplate], repo)

TaggedIds(bots, q) == {bots[i].id : i \in {j \in 1..Len(bots) : Tagged(bots[j], q.repo[1], q.branch[1])}}

TemplateIds(bots, q) == {bots[i].id : i \in {j \in 1..Len(bots) : TemplateOf(bots[j], q.repo[1])}}

\* positions and identifiers of the calls of one kind in a call log
At(cs, op) == {i \in 1..Len(cs) : cs[i].op = op}

IdsAt(cs, op) == {cs[i].id : i \in At(cs, op)}

\* no identifier is addressed twice by calls of that kind
Once(cs, op) == \A i, j \in At(cs, op) : cs[i].id = cs[j].id => i = j

\* the listing deleteBot or integrateBot took succeeded and holds no bot tagged
\* (repo, branch): the first call of a closed or rescoped_from event, the
\* listing after the duplicate calls of an opened event
InstanceListingEmpty(f) ==
    /\ \/ /\ IsEvent(f.req, ClosedForms \cup RescopedForms)
          /\ f.calls # <<>>
          /\ f.calls[1].ok
       \/ /\ IsEvent(f.req, OpenedForms)
          /\ \E i \in At(f.calls, "list") : i > 1 /\ f.calls[i].ok
    /\ TaggedIds(f.listing, f.req) = {}

-----------------------------------------------------------------------------
(* C1: an opened or reopened event (any letter case) with a template for the *)
(* repo and every remote call succeeding issues exactly one duplicate call   *)
(* per matching template, then, only after all of them, one integration call *)
(* per bot tagged (repo, branch) in the listing integrateBot took; it issues *)
(* no delete call.                                                           *)
C1_OpenedDuplicatesThenIntegrates ==
    (/\ fin.set
     /\ IsEvent(fin.req, OpenedForms)
     /\ AllOk(fin.calls)
     /\ TemplateIds(registry, fin.req) # {})
    => /\ IdsAt(fin.calls, "duplicate") = TemplateIds(registry, fin.req)
       /\ Once(fin.calls, "duplicate")
       /\ \A i \in At(fin.calls, "duplicate") : \A j \in At(fin.calls, "integrate") : i < j
       /\ IdsAt(fin.calls, "integrate") = TaggedIds(fin.listing, fin.req)
       /\ Once(fin.calls, "integrate")
       /\ At(fin.calls, "delete") = {}

C1_Witness ==
    /\ fin.set
    /\ fin.req.status = <<"Reopened">>
    /\ AllOk(fin.calls)
    /\ Cardinality(At(fin.calls, "duplicate")) = 2
    /\ Cardinality(At(fin.calls, "integrate")) >= 2
    /\ fin.resp.status = StatusCreated

(* C2: a closed or declined event handled with no other handler running and  *)
(* every remote call succeeding issues a delete for every bot tagged         *)
(* (repo, branch) in its listing, after which no such bot is in the          *)
(* registry; it issues no duplicate and no integration call.                 *)
C2_ClosedDeletesAllInstances ==
    (/\ fin.set
     /\ IsEvent(fin.req, ClosedForms)
     /\ fin.alone
     /\ AllOk(fin.calls))
    => /\ IdsAt(fin.calls, "delete") = TaggedIds(fin.listing, fin.req)
       /\ TaggedIds(registry, fin.req) = {}
       /\ fin.after = fin.before \ TaggedIds(fin.listing, fin.req)
       /\ At(fin.calls, "duplicate") = {}
       /\ At(fin.calls, "integrate") = {}

C2_Witness ==
    /\ fin.set
    /\ fin.req.status = <<"DECLINED">>
    /\ fin.alone
    /\ AllOk(fin.calls)
    /\ Cardinality(At(fin.calls, "delete")) >= 2
    /\ fin.resp.status = StatusCreated

(* C3: a rescoped_from event issues integration calls only, each on a bot    *)
(* tagged (repo, branch) in its listing: no duplicate, no delete, no call    *)
(* that changes the registry, so the bots are the same after as before.      *)
C3_RescopedOnlyIntegrates ==
    /\ \A h \in Handlers :
        IsEvent(handler[h].req, RescopedForms) =>
            \A i \in 1..Len(handler[h].calls) :
                /\ handler[h].calls[i].op \in {"list", "integrate"}
                /\ handler[h].calls[i].eff = "none"
    /\ (fin.set /\ IsEvent(fin.req, RescopedForms)) =>
           /\ \A i \in 1..Len(fin.calls) :
                /\ fin.calls[i].op \in {"list", "integrate"}
                /\ fin.calls[i].eff = "none"
           /\ IdsAt(fin.calls, "integrate") \subseteq TaggedIds(fin.listing, fin.req)
           /\ AllOk(fin.calls) => IdsAt(fin.calls, "integrate") = TaggedIds(fin.listing, fin.req)
           /\ fin.alone => fin.after = fin.before

C3_Witness ==
    /\ fin.set
    /\ IsEvent(fin.req, RescopedForms)
    /\ Cardinality(At(fin.calls, "integrate")) >= 2
    /\ fin.resp.status = StatusCreated
    /\ fin.alone

(* C4: every bot createBot produced carries one (TSUKUROGAMI_REPO,           *)
(* TSUKUROGAMI_BRANCH) pair, and no two of them in the registry carry the    *)
(* same pair, letter case folded.                                            *)
C4_UniqueTagPair ==
    \A i, j \in 1..Len(registry) :
        (registry[i].id >= FirstFreeId /\ registry[j].id >= FirstFreeId)
        => /\ {TagRepo, TagBranch} \subseteq DOMAIN registry[i].envVars
           /\ i # j =>
                ~ (/\ SameFold(registry[i].envVars[TagRepo], registry[j].envVars[TagRepo])
                   /\ SameFold(registry[i].envVars[TagBranch], registry[j].envVars[TagBranch]))

(* C5: handling the same event a second time, right after the first and both *)
(* times alone and answered 201, leaves the registry with the bots it had    *)
(* after the first time.                                                     *)
C5_Idempotent ==
    (/\ fin.set
     /\ fin.alone
     /\ fin.prev # NoRequest
     /\ fin.prev = fin.req
     /\ fin.resp.status = StatusCreated)
    => fin.after = fin.before

(* C6: a request carrying repo, branch and status whose status is none of    *)
(* the recognized ones is answered with HTTP 201.                            *)
C6_UnknownStatusAnswered201 ==
    (fin.set /\ Complete(fin.req) /\ fin.req.status[1] \notin RecognizedForms)
    => fin.resp.status = StatusCreated

(* C7: a request lacking repo, branch or status is answered 400 with a body  *)
(* naming the first parameter missing in the order repo, branch, status, and *)
(* no request to the CI server is issued.                                    *)
C7_MissingParameter400 ==
    (fin.set /\ ~ Complete(fin.req))
    => /\ fin.resp.status = StatusBadRequest
       /\ fin.resp.body = (IF Len(fin.req.repo) = 0 THEN ErrMissingRepo
                           ELSE IF Len(fin.req.branch) = 0 THEN ErrMissingBranch
                           ELSE ErrMissingStatus)
       /\ fin.calls = <<>>
       /\ fin.after = fin.before

C7_Witness ==
    /\ fin.set
    /\ fin.req.repo # <<>>
    /\ fin.req.branch = <<>>
    /\ fin.req.status = <<>>
    /\ fin.resp.status = StatusBadRequest

(* C8: an event with an unrecognized status issues no list, duplicate,       *)
(* delete or integration call, leaves the registry as it was, and is         *)
(* reported with the unknown-status error.                                   *)
C8_UnknownStatusNoOp ==
    (fin.set /\ Complete(fin.req) /\ fin.req.status[1] \notin RecognizedForms)
    => /\ fin.calls = <<>>
       /\ fin.after = fin.before
       /\ fin.after = Ids(registry)
       /\ fin.err = ErrUnknownStatus
       /\ fin.resp.body = ErrUnknownStatus

C8_Witness ==
    /\ fin.set
    /\ fin.req.status = <<"merged">>
    /\ Complete(fin.req)
    /\ Len(registry) > 0

(* C9: for a recognized status the answer is 500 with the error text in the  *)
(* body exactly when the reconciler call returned an error (a remote call    *)
(* failed, the listing was empty, or no bot matched), and 201 with an empty  *)
(* body when every reconciler call succeeded.                                *)
C9_Status500IffReconcilerError ==
    (fin.set /\ IsEvent(fin.req, RecognizedForms))
    => LET failed == ~ AllOk(fin.calls) \/ Len(fin.sel) = 0
       IN  /\ failed <=> fin.err # Nil
           /\ fin.err # Nil <=> (fin.resp.status = StatusInternalServerError /\ fin.resp.body = fin.err)
           /\ fin.err = Nil <=> (fin.resp.status = StatusCreated /\ fin.resp.body = "")

C9_Witness ==
    /\ fin.set
    /\ IsEvent(fin.req, OpenedForms)
    /\ At(fin.calls, "duplicate") # {}
    /\ ~ AllOk(fin.calls)
    /\ fin.calls[Len(fin.calls)].op = "integrate"
    /\ fin.resp.status = StatusInternalServerError

(* C10 as stated: whenever the listing holds no template of the repo,        *)
(* createBot fails with the no-template error, no duplicate call is issued   *)
(* and the opened/reopened handler answers 500 without calling integrateBot. *)
C10_NoTemplateError ==
    (/\ fin.set
     /\ IsEvent(fin.req, OpenedForms)
     /\ fin.calls # <<>>
     /\ fin.calls[1].ok
     /\ TemplateIds(registry, fin.req) = {})
    => /\ fin.err = ErrNoTemplates
       /\ fin.resp.status = StatusInternalServerError
       /\ Len(fin.calls) = 1

(* C10 amended: when the listing succeeds and holds no template of the repo, *)
(* createBot fails with the no-template error if the listing holds a bot,    *)
(* and with the listing's own "no bots" error if it holds none; either way   *)
(* the list request is the only call (no duplicate, no integrateBot) and the *)
(* answer is 500.                                                            *)
C10_NoTemplateOrNoBotsError ==
    (/\ fin.set
     /\ IsEvent(fin.req, OpenedForms)
     /\ fin.calls # <<>>
     /\ fin.calls[1].ok
     /\ TemplateIds(registry, fin.req) = {})
    => /\ fin.err = (IF Len(fin.listing) = 0 THEN ErrNoBots ELSE ErrNoTemplates)
       /\ fin.resp.status = StatusInternalServerError
       /\ fin.resp.body = fin.err
       /\ Len(fin.calls) = 1

C10_Witness ==
    /\ fin.set
    /\ IsEvent(fin.req, OpenedForms)
    /\ Len(fin.listing) > 0
    /\ fin.err = ErrNoTemplates
    /\ fin.calls = <<Call("list", 0, TRUE, "none")>>

(* C11 as stated: whenever the listing deleteBot or integrateBot took holds  *)
(* no bot tagged (repo, branch), the operation fails with the "no bots       *)
(* found" error, the listing is the handler's last call (no delete, no       *)
(* integration), the registry is as it was and the answer is 500.            *)
C11_NoInstanceError ==
    (fin.set /\ InstanceListingEmpty(fin))
    => /\ fin.err = ErrNoBotsFound
       /\ fin.resp.status = StatusInternalServerError
       /\ fin.calls[Len(fin.calls)].op = "list"
       /\ At(fin.calls, "delete") = {}
       /\ At(fin.calls, "integrate") = {}
       /\ (fin.alone /\ ~ IsEvent(fin.req, OpenedForms)) => fin.after = fin.before

(* C11 amended: when that listing holds at least one bot and none tagged     *)
(* (repo, branch), the error is "no bots found"; when it holds no bot at all *)
(* the error is the listing's own "no bots".  Either way the listing is the  *)
(* handler's last call (no delete, no integration request), the registry is  *)
(* as it was, and the answer is 500 with the error as body.                  *)
C11_NoInstanceOrNoBotsError ==
    (fin.set /\ InstanceListingEmpty(fin))
    => /\ fin.err = (IF Len(fin.listing) = 0 THEN ErrNoBots ELSE ErrNoBotsFound)
       /\ fin.resp.status = StatusInternalServerError
       /\ fin.resp.body = fin.err
       /\ fin.calls[Len(fin.calls)].op = "list"
       /\ At(fin.calls, "delete") = {}
       /\ At(fin.calls, "integrate") = {}
       /\ (fin.alone /\ ~ IsEvent(fin.req, OpenedForms)) => fin.after = fin.before
       /\ fin.after = Ids(registry)

C11_Witness ==
    /\ fin.set
    /\ IsEvent(fin.req, ClosedForms \cup RescopedForms)
    /\ Len(fin.listing) > 0
    /\ fin.err = ErrNoBotsFound
    /\ fin.calls = <<Call("list", 0, TRUE, "none")>>
    /\ fin.resp.status = StatusInternalServerError

\* the bots of a sequence
Range(bots) == {bots[i] : i \in 1..Len(bots)}

(* C12: for every listing and every (repo, branch), the filter of deleteBot  *)
(* and integrateBot yields exactly the listed bots whose TSUKUROGAMI_REPO is *)
(* repo and whose TSUKUROGAMI_BRANCH is branch, letter case folded, each     *)
(* once; the same bots are yielded when the listing is in another order;     *)
(* and no bot lacking one of the two tags (a template, say) is yielded.      *)
C12_FilterExact ==
    found.set =>
        LET want == {b \in Range(registry) : Tagged(b, found.repo, found.branch)}
        IN  /\ Range(found.bs) = want
            /\ Len(found.bs) = Cardinality(want)
            /\ Range(found.bsShuffled) = want
            /\ Len(found.bsShuffled) = Cardinality(want)
            /\ \A b \in Range(found.bs) \cup Range(found.bsShuffled) :
                    /\ TagRepo \in DOMAIN b.envVars
                    /\ TagBranch \in DOMAIN b.envVars
                    /\ TagTemplate \notin DOMAIN b.envVars

C12_Witness ==
    /\ found.set
    /\ found.repo = "App"
    /\ found.branch = "fx"
    /\ Len(registry) = 3
    /\ RepoOnly \in Range(registry)
    /\ found.shuffled # registry
    /\ Range(found.bs) = {OldInstance, FxInstance}
    /\ found.bsShuffled # found.bs

-----------------------------------------------------------------------------
(* Vocabulary of the relay's properties: the status tokens by meaning, each  *)
(* spelling listed.                                                          *)

InProgressTokens == {"inprogress", "InProgress"}
SuccessTokens == {"succeeded", "Succeeded", "warnings"}
FailureTokens == {"trigger-error", "internal-build-error", "build-errors", "BUILD-ERRORS"}
KnownTokens == InProgressTokens \cup SuccessTokens \cup FailureTokens

RelayComplete(q) ==
    Len(q.commit) > 0 /\ Len(q.status) > 0 /\ Len(q.bot) > 0 /\ Len(q.integration) > 0

\* the payload built for the status token tok is the one the mapping asks for
MappedAsAsked(tok, body) ==
    /\ tok \in InProgressTokens => body.state = "INPROGRESS"
    /\ tok \in SuccessTokens => body.state = "SUCCESSFUL"
    /\ tok \notin InProgressTokens \cup SuccessTokens => body.state = "FAILED"
    /\ tok \in KnownTokens => body.description = ""
    /\ tok \notin KnownTokens =>
           \E prefix \in {"", "xcode returned: "} : body.description = prefix \o tok

(* C13: for every status token received by /integrationUpdated, whatever its *)
(* letter case: inprogress gives state INPROGRESS; succeeded and warnings    *)
(* give SUCCESSFUL; every other token gives FAILED; and the description      *)
(* carries the token as received when the token is none of inprogress,       *)
(* succeeded, warnings, trigger-error, internal-build-error, build-errors,   *)
(* and is empty when it is one of them.                                      *)
C13_StatusMapping ==
    /\ \A h \in Handlers :
           relay[h].pc = "post" => MappedAsAsked(relay[h].req.status[1], relay[h].post.body)
    /\ \A i \in 1..Len(rfin.posts) : MappedAsAsked(rfin.req.status[1], rfin.posts[i].body)

C13_Witness ==
    /\ rfin.set
    /\ rfin.req.status = <<"Checkout-Error">>
    /\ Len(rfin.posts) = 1
    /\ rfin.posts[1].body.state = "FAILED"
    /\ rfin.posts[1].body.description = "xcode returned: Checkout-Error"
    /\ \E h \in Handlers :
           /\ relay[h].pc = "post"
           /\ relay[h].req.status = <<"Succeeded">>
           /\ relay[h].post.body.state = "SUCCESSFUL"

(* C14: an /integrationUpdated request lacking commit, status, bot or        *)
(* integration is answered 500 and issues no POST to the source-control      *)
(* server; a request carrying all four whose POST comes back with a          *)
(* transport error is answered 500 as well.                                  *)
C14_RelayFailure500 ==
    /\ \A h \in Handlers : relay[h].pc = "post" => RelayComplete(relay[h].req)
    /\ (rfin.set /\ ~ RelayComplete(rfin.req))
       => /\ rfin.resp.status = StatusInternalServerError
          /\ rfin.posts = <<>>
    /\ (rfin.set /\ RelayComplete(rfin.req) /\ ~ rfin.answered)
       => rfin.resp.status = StatusInternalServerError

C14_Witness ==
    /\ rfin.set
    /\ rfin.req.commit # <<>>
    /\ rfin.req.status # <<>>
    /\ rfin.req.bot # <<>>
    /\ rfin.req.integration = <<>>
    /\ rfin.posts = <<>>
    /\ rfin.resp.status = StatusInternalServerError

(* C15: an /integrationUpdated request carrying commit, status, bot and      *)
(* integration issues exactly one POST, to rest/build-status/1.0/commits/    *)
(* followed by that commit under the source-control server's base path, with *)
(* key the bot name and name "<bot>:<integration>"; it is answered 200 when  *)
(* that POST has come back with a response, and not before.                  *)
C15_RelayPostsOnce ==
    (rfin.set /\ RelayComplete(rfin.req))
    => /\ Len(rfin.posts) = 1
       /\ rfin.posts[1].url.scheme \in {"http", "https"}
       /\ rfin.posts[1].url.host = BitbucketHost
       /\ rfin.posts[1].url.path =
              BitbucketPath \o <<"rest", "build-status", "1.0", "commits">> \o rfin.req.commit
       /\ rfin.posts[1].body.key = rfin.req.bot[1]
       /\ rfin.posts[1].body.name = rfin.req.bot[1] \o ":" \o rfin.req.integration[1]
       /\ rfin.answered <=> rfin.resp.status = StatusOK
       /\ rfin.answered => rfin.resp.body = ""

C15_Witness ==
    /\ rfin.set
    /\ rfin.req.commit = <<"def456">>
    /\ rfin.req.bot = <<"app.watch.fx">>
    /\ rfin.req.integration = <<"12">>
    /\ Len(rfin.posts) = 1
    /\ rfin.posts[1].body.name = "app.watch.fx:12"
    /\ rfin.answered
    /\ rfin.resp.status = StatusOK

-----------------------------------------------------------------------------
(* Vocabulary of the properties of createBot.  f is a handler's state or the *)
(* summary of a returned request; while createBot runs, and when it has      *)
(* failed, f.listing is the listing createBot took and f.sel[k] is the bot   *)
(* submitted by the k-th duplicate call.                                     *)

InCreate(f) ==
    /\ Len(f.calls) >= 2
    /\ f.calls[2].op = "duplicate"
    /\ \A i \in 2..Len(f.calls) : f.calls[i].op # "list"

Duplicates(f) == Cardinality(At(f.calls, "duplicate"))

\* the templates of the request's repo, in the order of the listing
TemplatesListed(f) == SelectSeq(f.listing, LAMBDA b : TemplateOf(b, f.req.repo[1]))

\* the bots of the registry as the CI server held them before the first event
Stored == {TemplateA, TemplateB, OldInstance, DevInstance, LibInstance}

NoFlag(c) ==
    /\ ~ c.onSuccess /\ ~ c.onWarnings /\ ~ c.onFailingTests
    /\ ~ c.onBuildErrors /\ ~ c.onAnalyzerWarnings

EveryFlag(c) ==
    /\ c.onSuccess /\ c.onWarnings /\ c.onFailingTests
    /\ c.onBuildErrors /\ c.onAnalyzerWarnings

\* the triggers ts are branch switch, pre-build poke, post-build poke, then old
PrependedTo(ts, old, branch) ==
    /\ Len(ts) = 3 + Len(old)
    /\ ts[1].name = "Switch Branch"
    /\ ts[1].phase = 1
    /\ ts[1].body = <<"switchBranch", branch>>
    /\ ts[2].name = "Update Status"
    /\ ts[2].phase = 1
    /\ ts[2].body = <<"pokeStatus", "localhost", 4444, "inprogress">>
    /\ ts[3].name = "Update Status"
    /\ ts[3].phase = 2
    /\ ts[3].body = <<"pokeStatus", "localhost", 4444, "${XCS_INTEGRATION_RESULT}">>
    /\ \A i \in 1..Len(old) : ts[3 + i] = old[i]

\* the triggers of every bot f submitted are the three new ones, then those of
\* its template
TriggersPrependedIn(f) ==
    InCreate(f) =>
        \A k \in 1..Duplicates(f) :
            PrependedTo(f.sel[k].triggers, TemplatesListed(f)[k].triggers, f.req.branch[1])

\* a status poke: a trigger named "Update Status" of phase ph
IsPoke(t, ph) == t.name = "Update Status" /\ t.phase = ph

\* every bot f submitted has a post-build poke and a pre-build poke among its
\* first three triggers, every flag set in the former and none in the latter
PokesFlaggedIn(f) ==
    InCreate(f) =>
        \A k \in 1..Duplicates(f) :
            LET ts == f.sel[k].triggers
            IN  /\ \E i \in 1..3 : IsPoke(ts[i], 2)
                /\ \E i \in 1..3 : IsPoke(ts[i], 1)
                /\ \A i \in 1..3 : IsPoke(ts[i], 2) => EveryFlag(ts[i].conditions)
                /\ \A i \in 1..3 : IsPoke(ts[i], 1) => NoFlag(ts[i].conditions)

\* the k-th bot f submitted is the one asked for of the k-th template listed,
\* and went to that template's duplicate endpoint
SubmittedAsAskedIn(f) ==
    InCreate(f) =>
        /\ Duplicates(f) <= Len(TemplatesListed(f))
        /\ \A k \in 1..Duplicates(f) :
               LET t == TemplatesListed(f)[k]
                   b == f.sel[k]
               IN  /\ b.name = t.name \o "." \o f.req.branch[1]
                   /\ b.id = 0
                   /\ b.scheduleType = 3
                   /\ TagRepo \in DOMAIN b.envVars
                   /\ b.envVars[TagRepo] = f.req.repo[1]
                   /\ TagBranch \in DOMAIN b.envVars
                   /\ b.envVars[TagBranch] = f.req.branch[1]
                   /\ TagTemplate \notin DOMAIN b.envVars
                   /\ f.calls[1 + k].op = "duplicate"
                   /\ f.calls[1 + k].id = t.id
                   /\ t.id # 0

(* C16: every configuration createBot submits has as triggers the branch      *)
(* switch, the pre-build status poke and the post-build status poke, in that *)
(* order, followed by the triggers of its template in their order (three     *)
(* more than the template has); the bot the CI server creates holds them so; *)
(* and the bots the CI server held before, templates included, are stored    *)
(* with the triggers they had.                                               *)
C16_TriggersPrepended ==
    /\ \A h \in Handlers : TriggersPrependedIn(handler[h])
    /\ TriggersPrependedIn(fin)
    /\ \A i \in 1..Len(registry) :
           IF registry[i].id < FirstFreeId
           THEN registry[i] \in Stored
           ELSE \/ PrependedTo(registry[i].triggers, TemplateA.triggers, registry[i].envVars[TagBranch])
                \/ PrependedTo(registry[i].triggers, TemplateB.triggers, registry[i].envVars[TagBranch])

C16_Witness ==
    \E h \in Handlers :
        /\ handler[h].pc = "integrateBot"
        /\ InCreate(handler[h])
        /\ Duplicates(handler[h]) = 2
        /\ \E k \in 1..2 :
               /\ Len(handler[h].sel[k].triggers) = 4
               /\ handler[h].sel[k].triggers[4] = BuildTrigger
        /\ TemplateA \in Range(registry)

(* C17: in every configuration createBot submits, the post-build status poke *)
(* has onSuccess, onWarnings, onFailingTests, onBuildErrors and              *)
(* onAnalyzerWarnings all true and the pre-build status poke has all five    *)
(* false.                                                                    *)
C17_PokeConditions ==
    /\ \A h \in Handlers : PokesFlaggedIn(handler[h])
    /\ PokesFlaggedIn(fin)

C17_Witness ==
    \E h \in Handlers :
        /\ handler[h].pc = "duplicate"
        /\ handler[h].idx = 2
        /\ InCreate(handler[h])
        /\ EveryFlag(handler[h].sel[1].triggers[3].conditions)
        /\ NoFlag(handler[h].sel[1].triggers[2].conditions)

(* C18: the bot createBot(repo, branch) submits for a template T is named    *)
(* T's name, a dot, branch; has no identifier; has schedule type 3; carries  *)
(* TSUKUROGAMI_REPO = repo and TSUKUROGAMI_BRANCH = branch as received and   *)
(* no TSUKUROGAMI_REPO_TEMPLATE; and is posted to the duplicate endpoint of  *)
(* the identifier T has in the listing.                                      *)
C18_SubmittedBot ==
    /\ \A h \in Handlers : SubmittedAsAskedIn(handler[h])
    /\ SubmittedAsAskedIn(fin)

C18_Witness ==
    /\ fin.set
    /\ InCreate(fin)
    /\ Duplicates(fin) = 2
    /\ fin.sel[1].name = "app.watch.fx"
    /\ fin.sel[2].name = "app.ios.fx"
    /\ fin.calls[2].id = 2
    /\ fin.calls[3].id = 1
    /\ ~ fin.calls[3].ok

-----------------------------------------------------------------------------
(* Vocabulary of the properties of a fan-out that fails *)

\* the request returned because its last call, of kind op, failed
FailedAt(f, op) ==
    /\ f.calls # <<>>
    /\ f.calls[Len(f.calls)].op = op
    /\ ~ f.calls[Len(f.calls)].ok

\* every call but the last succeeded
OkBeforeLast(cs) == \A i \in 1..(Len(cs) - 1) : cs[i].ok

\* the identifiers addressed by the successful calls of kind op
IdsDone(cs, op) == {cs[i].id : i \in {j \in At(cs, op) : cs[j].ok}}

(* C19 as stated: when a duplicate call of createBot's fan-out fails,        *)
(* createBot fails with that failure and the handler answers 500; the bots   *)
(* created from the earlier templates stay in the registry and no delete is  *)
(* issued; and every template of the repo in the listing is duplicated,      *)
(* whatever the outcome for the others.                                      *)
C19_FanOutIndependent ==
    (/\ fin.set
     /\ IsEvent(fin.req, OpenedForms)
     /\ InCreate(fin)
     /\ FailedAt(fin, "duplicate"))
    => /\ fin.err \in {ErrTransport, ErrRPCFailed}
       /\ fin.resp = [status |-> StatusInternalServerError, body |-> fin.err]
       /\ At(fin.calls, "delete") = {}
       /\ fin.alone =>
              /\ fin.before \subseteq fin.after
              /\ Cardinality(fin.after \ fin.before) = Cardinality(IdsDone(fin.calls, "duplicate"))
       /\ IdsAt(fin.calls, "duplicate") = TemplateIds(fin.listing, fin.req)

(* C19 amended: when a duplicate call of createBot's fan-out fails, createBot *)
(* fails with that failure, its first, and the handler answers 500 with it   *)
(* as body; the bots created from the earlier templates stay in the registry *)
(* and no delete is issued; the templates listed after the failing one are   *)
(* not duplicated, the failing call being the handler's last.                *)
C19_FanOutStopsAtFirstFailure ==
    (/\ fin.set
     /\ IsEvent(fin.req, OpenedForms)
     /\ InCreate(fin)
     /\ ~ AllOk(fin.calls))
    => /\ FailedAt(fin, "duplicate")
       /\ OkBeforeLast(fin.calls)
       /\ fin.err \in {ErrTransport, ErrRPCFailed}
       /\ fin.resp = [status |-> StatusInternalServerError, body |-> fin.err]
       /\ At(fin.calls, "delete") = {}
       /\ fin.alone =>
              /\ fin.before \subseteq fin.after
              /\ Cardinality(fin.after \ fin.before) = Duplicates(fin) - 1
              /\ \A k \in 1..(Duplicates(fin) - 1) :
                     \E i \in 1..Len(registry) :
                         /\ registry[i].id \in fin.after \ fin.before
                         /\ registry[i].name = fin.sel[k].name
       /\ Duplicates(fin) <= Len(TemplatesListed(fin))
       /\ \A k \in 1..Len(TemplatesListed(fin)) :
              TemplatesListed(fin)[k].id \in IdsAt(fin.calls, "duplicate") <=> k <= Duplicates(fin)

C19_Witness ==
    /\ fin.set
    /\ fin.alone
    /\ IsEvent(fin.req, OpenedForms)
    /\ InCreate(fin)
    /\ Len(TemplatesListed(fin)) = 2
    /\ Duplicates(fin) = 2
    /\ fin.calls[2].ok
    /\ ~ fin.calls[3].ok
    /\ Cardinality(fin.after \ fin.before) = 1
    /\ fin.resp.status = StatusInternalServerError

(* C20: when a delete call of deleteBot's fan-out fails (no response, or a   *)
(* status other than 204), deleteBot returns that error at once: the failing *)
(* call is the handler's last and its first to fail, the matches after it    *)
(* get no delete call, the bots deleted before it are not in the registry,   *)
(* and the handler answers 500.                                              *)
C20_DeleteStopsAtFirstFailure ==
    (/\ fin.set
     /\ IsEvent(fin.req, ClosedForms)
     /\ At(fin.calls, "delete") # {}
     /\ ~ AllOk(fin.calls))
    => LET n == Cardinality(At(fin.calls, "delete"))
       IN  /\ FailedAt(fin, "delete")
           /\ OkBeforeLast(fin.calls)
           /\ fin.err \in {ErrTransport, ErrRPCFailed}
           /\ fin.resp = [status |-> StatusInternalServerError, body |-> fin.err]
           /\ n <= Len(fin.sel)
           /\ {fin.sel[k].id : k \in 1..Len(fin.sel)} = TaggedIds(fin.listing, fin.req)
           /\ \A k \in 1..Len(fin.sel) : fin.sel[k].id \in IdsAt(fin.calls, "delete") <=> k <= n
           /\ \A k \in 1..(n - 1) : fin.sel[k].id \notin Ids(registry)
           /\ fin.alone => fin.after = fin.before \ {fin.sel[k].id : k \in 1..(n - 1)}

C20_Witness ==
    /\ fin.set
    /\ fin.alone
    /\ IsEvent(fin.req, ClosedForms)
    /\ Len(fin.sel) = 2
    /\ Len(fin.calls) = 2
    /\ FailedAt(fin, "delete")
    /\ fin.after = fin.before
    /\ fin.resp.status = StatusInternalServerError

(* C21: integrateBot issues an integration request to each bot tagged        *)
(* (repo, branch) in its listing, and a failed request on one of them does   *)
(* not keep the requests for the others from being issued: when integrateBot *)
(* has returned, every such bot has been sent one.                           *)
C21_IntegrateReportsPerBot ==
    (/\ fin.set
     /\ IsEvent(fin.req, OpenedForms \cup RescopedForms)
     /\ At(fin.calls, "integrate") # {})
    => /\ IdsAt(fin.calls, "integrate") = TaggedIds(fin.listing, fin.req)
       /\ ~ AllOk(fin.calls) => fin.resp.status = StatusInternalServerError

\* every run of calls of kind op in cs comes right after a listing
ListedFirst(cs, op) ==
    \A i \in At(cs, op) :
        \E j \in At(cs, "list") : j < i /\ \A k \in (j + 1)..i : cs[k].op = op

\* f stands right after a listing: nothing has been written since it
JustListed(f) == f.pc \in {"duplicate", "delete", "integrate"} /\ f.idx = 1

(* C23: createBot, deleteBot and integrateBot each start with a listing of   *)
(* their own: every run of duplicate, delete or integration calls follows a  *)
(* list call directly, and a handler running alone that has just listed      *)
(* holds the registry as it is now, not an earlier listing.  So a finished   *)
(* opened event has triggered every bot tagged (repo, branch) in a listing   *)
(* taken after the duplicate calls, the newly created bots included.         *)
C23_FreshListingPerOperation ==
    /\ \A h \in Handlers :
        /\ ListedFirst(handler[h].calls, "duplicate")
        /\ ListedFirst(handler[h].calls, "delete")
        /\ ListedFirst(handler[h].calls, "integrate")
        /\ (JustListed(handler[h]) /\ handler[h].alone) => handler[h].listing = registry
    /\ (fin.set /\ IsEvent(fin.req, OpenedForms) /\ fin.resp.status = StatusCreated)
       => /\ ListedFirst(fin.calls, "integrate")
          /\ \A i \in At(fin.calls, "duplicate"), j \in At(fin.calls, "integrate") : i < j
          /\ IdsAt(fin.calls, "integrate") = TaggedIds(fin.listing, fin.req)
          /\ fin.alone => /\ fin.listing = registry
                          /\ (fin.after \ fin.before) \subseteq IdsAt(fin.calls, "integrate")
                          /\ Cardinality(fin.after \ fin.before) = Duplicates(fin)

C23_Witness ==
    /\ fin.set /\ IsEvent(fin.req, OpenedForms) /\ fin.resp.status = StatusCreated
    /\ fin.alone
    /\ Duplicates(fin) = 2
    /\ (fin.after \ fin.before) \subseteq IdsAt(fin.calls, "integrate")
    /\ Cardinality(IdsAt(fin.calls, "integrate")) = 2

\* the bots of a listing that carry the template tag
Marked(bots) == {bots[i] : i \in {j \in 1..Len(bots) : TagTemplate \in DOMAIN bots[j].envVars}}

\* the ids f has addressed a delete or an integration request to
Touched(f) == IdsAt(f.calls, "delete") \cup IdsAt(f.calls, "integrate")

NoTemplateTouched ==
    /\ \A i \in 1..Len(registry) :
          registry[i].id >= FirstFreeId => TagTemplate \notin DOMAIN registry[i].envVars
    /\ \A h \in Handlers :
          Touched(handler[h]) \cap {b.id : b \in Marked(handler[h].listing)} = {}
    /\ Touched(fin) \cap {b.id : b \in Marked(fin.listing)} = {}
    /\ (fin.set /\ IsEvent(fin.req, OpenedForms) /\ fin.resp.status = StatusCreated /\ fin.alone)
       => /\ fin.before \subseteq fin.after
          /\ Cardinality(fin.after \ fin.before) = Cardinality(TemplateIds(fin.listing, fin.req))

(* C26: no step changes the set of template bots of the registry: no bot     *)
(* createBot produced carries the template tag, no delete or integration     *)
(* request goes to a bot carrying it, and a successful opened event handled  *)
(* alone adds exactly as many bots as the repo has templates, also when      *)
(* instances produced by an earlier opened event are in the registry.        *)
C26_TemplatesUntouched ==
    [][Marked(registry') = Marked(registry) /\ NoTemplateTouched']_vars

C26_Witness ==
    /\ fin.set /\ IsEvent(fin.req, OpenedForms) /\ fin.resp.status = StatusCreated
    /\ fin.alone
    /\ IsEvent(fin.prev, OpenedForms)
    /\ \E id \in fin.before : id >= FirstFreeId
    /\ Cardinality(fin.after \ fin.before) = 2
    /\ Cardinality(Marked(registry)) = 2

\* the bots of a listing tagged as instances of another repo or branch than q's
Foreign(bots, q) ==
    {bots[i] : i \in {j \in 1..Len(bots) :
        /\ TagRepo \in DOMAIN bots[j].envVars
        /\ TagBranch \in DOMAIN bots[j].envVars
        /\ ~ Tagged(bots[j], q.repo[1], q.branch[1])}}

OnlyTaggedTouched(f) ==
    Complete(f.req) => Touched(f) \subseteq TaggedIds(f.listing, f.req)

(* C27: handling an event for (repo, branch) sends delete and integration    *)
(* requests only to bots whose TSUKUROGAMI_REPO and TSUKUROGAMI_BRANCH tags  *)
(* equal repo and branch up to letter case, and every instance bot of        *)
(* another repo or another branch stays in the registry as it was.           *)
C27_OtherBotsUntouched ==
    [][/\ \A repo \in Repos, branch \in Branches :
            Foreign(registry, [repo |-> <<repo>>, branch |-> <<branch>>])
            \subseteq Foreign(registry', [repo |-> <<repo>>, branch |-> <<branch>>])
       /\ \A h \in Handlers : OnlyTaggedTouched(handler[h])'
       /\ OnlyTaggedTouched(fin)']_vars

C27_Witness ==
    /\ fin.set /\ IsEvent(fin.req, ClosedForms) /\ fin.resp.status = StatusCreated
    /\ IdsAt(fin.calls, "delete") # {}
    /\ \E i \in 1..Len(registry) : registry[i] = DevInstance
    /\ DevInstance.id \in fin.before

(* C24: after startup no request handler writes a process-wide variable:     *)
(* the configuration the handlers read, the scheme of the source-control     *)
(* URL included, is the same after every step as before it.                  *)
C24_NoSharedWrite == [][scheme' = scheme]_vars

(* C28: when the commit-status POST of /integrationUpdated completes without *)
(* a transport error the handler answers 200 with an empty body, whatever    *)
(* status code the source-control server answered with.                      *)
C28_AnyAnswerIs200 ==
    (rfin.set /\ Len(rfin.posts) = 1 /\ ~ rfin.answer.err)
    => /\ rfin.resp.status = StatusOK
       /\ rfin.resp.body = ""
       /\ rfin.err = Nil

C28_Witness ==
    /\ rfin.set
    /\ Len(rfin.posts) = 1
    /\ rfin.answer \in {Answer(StatusBadRequest), Answer(StatusInternalServerError)}
    /\ rfin.resp.status = StatusOK

\* the opened and the closed request of the script have both returned, the
\* closed one last and answered 201
BothFinished ==
    /\ script # NoScript
    /\ arrived = Len(script)
    /\ \A h \in Handlers : handler[h].pc = "idle"
    /\ fin.set
    /\ fin.req = script[2]
    /\ fin.resp.status = StatusCreated

(* C29, as claimed: once an opened handler and a closed handler that arrived *)
(* after it for the same (repo, branch) have both finished, the closed one   *)
(* answered 201, no bot tagged (repo, branch) remains in the registry,       *)
(* however the remote calls of the two interleaved.                          *)
C29_NoneRemainsInterleaved ==
    BothFinished => TaggedIds(registry, fin.req) = {}

(* C29, amended: none remains when the closed handler arrived after the      *)
(* opened one had finished; when the two overlapped, the bots tagged (repo,  *)
(* branch) in the listing the closed handler took are gone, and any that     *)
(* remains is one the opened handler created after that listing.             *)
C29_NoneRemainsSequential ==
    BothFinished
    => /\ fin.alone => TaggedIds(registry, fin.req) = {}
       /\ TaggedIds(fin.listing, fin.req) \cap Ids(registry) = {}
       /\ \A id \in TaggedIds(registry, fin.req) : id >= FirstFreeId /\ id \notin Ids(fin.listing)

C29_Witness ==
    /\ BothFinished
    /\ fin.alone
    /\ \E id \in fin.before : id >= FirstFreeId
    /\ Cardinality(IdsAt(fin.calls, "delete")) = 2
    /\ TaggedIds(registry, fin.req) = {}

\* no bot is addressed twice by the writes of one kind in cs
WritesOnce(cs) == Once(cs, "duplicate") /\ Once(cs, "delete") /\ Once(cs, "integrate")

(* C22: nothing is retried.  Within the handling of one request no remote    *)
(* write goes twice to the same bot, a failed call is the last call of its   *)
(* request (a handler still running has no failed call behind it), a relay   *)
(* issues at most one commit-status POST, and a handler that has returned    *)
(* keeps nothing: the next request it serves starts from an empty call log.  *)
C22_NothingRetried ==
    /\ \A h \in Handlers :
        /\ WritesOnce(handler[h].calls)
        /\ AllOk(handler[h].calls)
        /\ handler[h].pc = "idle" => handler[h] = Idle
        /\ handler[h].pc \in {"createBot", "deleteBot"} => handler[h].calls = <<>>
        /\ handler[h].pc = "integrateBot" => At(handler[h].calls, "integrate") = {}
        /\ relay[h].pc = "idle" => relay[h] = IdleRelay
    /\ fin.set => WritesOnce(fin.calls) /\ OkBeforeLast(fin.calls)
    /\ rfin.set => Len(rfin.posts) <= 1

C22_Witness ==
    /\ fin.set
    /\ Len(fin.calls) >= 3
    /\ ~ fin.calls[Len(fin.calls)].ok
    /\ fin.calls[Len(fin.calls)].op \in {"duplicate", "delete", "integrate"}
    /\ rfin.set
    /\ Len(rfin.posts) = 1
    /\ rfin.answer.err
    /\ \A h \in Handlers : handler[h] = Idle /\ relay[h] = IdleRelay

\* number of times the i-th line passed to Write stands in the buffer
Appended(i) == Cardinality({k \in 1..Len(logger.logs) : logger.logs[k] = writes[i].line})

\* who is between Lock and Unlock
InBuffer ==
    Cardinality({i \in 1..Len(writes) : writes[i].pc = "locked"})
    + (IF dump.pc = "locked" THEN 1 ELSE 0)

LogGuarded ==
    /\ InBuffer = (IF logger.m = "free" THEN 0 ELSE 1)
    /\ \A i \in 1..Len(writes) : Appended(i) = (IF writes[i].pc = "done" THEN 1 ELSE 0)
    /\ Len(logger.logs) = Cardinality({i \in 1..Len(writes) : writes[i].pc = "done"})
    /\ \A h \in Handlers : (Logged(h) < Len(LinesOf(h))) => ENABLED loggerWrite(h)

(* C25: the buffer is read and appended to only between Lock and Unlock of   *)
(* its mutex, by one goroutine at a time; logger.Write can return whatever   *)
(* the state of the mutex, also while a /logs dump holds it; and every line  *)
(* passed to Write is eventually in the buffer, exactly once.                *)
C25_BufferGuarded ==
    /\ [] LogGuarded
    /\ \A i \in 1..MaxWrites :
          (Len(writes) >= i) ~> (Len(writes) >= i /\ writes[i].pc = "done" /\ Appended(i) = 1)

C25_Witness ==
    /\ dump.pc = "locked"
    /\ logger.m = "dump"
    /\ Len(writes) = MaxWrites
    /\ \E i \in 1..Len(writes) : writes[i].pc = "go"
    /\ \E i \in 1..Len(writes) : writes[i].pc = "done"

\* the lines of one handler stand in ls in the order they were written in
InWrittenOrder(ls) ==
    \A p, q \in 1..Len(ls) : (p < q /\ ls[p].h = ls[q].h) => ls[p].n < ls[q].n

(* C30: the lines one handler logged one after the other stand in the log    *)
(* buffer, and in what /logs writes out, in the order they were logged in.   *)
C30_LinesInWrittenOrder ==
    InWrittenOrder(logger.logs) /\ InWrittenOrder(dump.out)

====
